---- MODULE Spec2Model ----
(***************************************************************************)
(* Booking validation, pricing and review eligibility of alx_travel_app    *)
(* (listings/serializers.py, listings/models.py).                          *)
(*                                                                         *)
(* Dates are day numbers, prices are whole currency units, identifiers of  *)
(* bookings and reviews are the order of insertion.  A request is the      *)
(* `data` dictionary a serializer receives: a function whose DOMAIN is the *)
(* set of keys present, so that data.get(k) of the code is Has(data, k).   *)
(***************************************************************************)
EXTENDS Integers, FiniteSets, Sequences, TLC

VARIABLES listings, bookings, reviews, today, inflight, last

vars == <<listings, bookings, reviews, today, inflight, last>>

(* ------------------------------ bounds --------------------------------- *)
MaxBookings == 2
MaxReviews == 2
MaxDay == 2
MaxToday == 1
MaxGuestsReq == 2

Users == {"u1", "u2"}
\* the user who books while booking validation is exercised
BookingGuests == {"u1"}
Procs == {"p1", "p2"}
Days == 0..MaxDay
GuestCounts == 0..MaxGuestsReq
\* listing ids a request may carry; "L9" names no stored listing
RequestListingIds == {"L1", "L2", "L3", "L9"}

(* ------------------------------ store ---------------------------------- *)
\* models.py Booking.STATUS_CHOICES
STATUS_CHOICES == {"pending", "confirmed", "cancelled", "completed"}

\* The Listing table: three stored listings, one of them not available.
InitialListings ==
    [l \in {"L1", "L2", "L3"} |->
        CASE l = "L1" ->
                [price_per_night |-> 100, max_guests |-> 1, is_available |-> TRUE]
          [] l = "L2" ->
                [price_per_night |-> 100, max_guests |-> 2, is_available |-> TRUE]
          [] l = "L3" ->
                [price_per_night |-> 50, max_guests |-> 1, is_available |-> FALSE]]

Has(data, k) == k \in DOMAIN data

NoRequest == [op |-> "none", result |-> "none"]

Idle == [op |-> "idle"]

(* --------------------------- Booking model ----------------------------- *)
\* models.py Booking.Meta.constraints: check_out_after_check_in, the only
\* constraint the Booking table carries.
BookingConstraintsHold(row) == row.check_out_date > row.check_in_date

\* models.py Booking.duration_nights / serializers.py create: (out - in).days
Nights(check_in_date, check_out_date) == check_out_date - check_in_date

(* ------------------------ BookingSerializer ---------------------------- *)
\* Field validation that runs before validate(): number_of_guests carries
\* MinValueValidator(1).
BookingFieldsValid(data) ==
    Has(data, "number_of_guests") => data.number_of_guests >= 1

\* The queryset with closed intervals: a stay ending on the day the other
\* begins counts as overlapping.
OverlappingBookings_Closed(bks, listing_id, check_in_date, check_out_date, instance) ==
    { b \in DOMAIN bks :
        /\ bks[b].listing = listing_id
        /\ bks[b].status \in {"confirmed", "pending"}
        /\ bks[b].check_in_date <= check_out_date
        /\ bks[b].check_out_date >= check_in_date
        /\ (instance # 0 => b # instance) }

\* serializers.py validate, the queryset of lines 130-139.  instance is the
\* booking id being updated, 0 for a creation (self.instance is None).
OverlappingBookings(bks, listing_id, check_in_date, check_out_date, instance) ==
    { b \in DOMAIN bks :
        /\ bks[b].listing = listing_id
        /\ bks[b].status \in {"confirmed", "pending"}
        /\ bks[b].check_in_date < check_out_date
        /\ bks[b].check_out_date > check_in_date
        /\ (instance # 0 => b # instance) }

\* serializers.py BookingSerializer.validate: the error raised, or "ok".
\*   "Check-out date must be after check-in date."       InvalidDateRange
\*   "Check-in date cannot be in the past."              PastCheckInDate
\*   "Invalid listing ID."                               ListingNotFound
\*   "This listing is not available for booking."        ListingUnavailable
\*   "Number of guests (..) exceeds maximum allowed"     GuestCapacityExceeded
\*   "These dates are not available. ..."                DateRangeConflict
\* The date checks in the other order.
ValidateDates_PastFirst(data, now) ==
    IF Has(data, "check_in_date") /\ Has(data, "check_out_date")
    THEN IF data.check_in_date < now
         THEN "PastCheckInDate"
         ELSE IF data.check_out_date <= data.check_in_date
              THEN "InvalidDateRange"
              ELSE "ok"
    ELSE "ok"

\* The date checks without the comparison with today.
ValidateDates_NoPast(data, now) ==
    IF Has(data, "check_in_date") /\ Has(data, "check_out_date")
    THEN IF data.check_out_date <= data.check_in_date
         THEN "InvalidDateRange"
         ELSE "ok"
    ELSE "ok"

\* Lines 107-112: the two date checks.
ValidateDates(data, now) ==
    IF Has(data, "check_in_date") /\ Has(data, "check_out_date")
    THEN IF data.check_out_date <= data.check_in_date
         THEN "InvalidDateRange"
         ELSE IF data.check_in_date < now
              THEN "PastCheckInDate"
              ELSE "ok"
    ELSE "ok"

\* The capacity check with >= for >.
ValidateListing_GuestsGe(data, instance, lst, bks) ==
    IF ~Has(data, "listing_id")
    THEN "ok"
    ELSE IF data.listing_id \notin DOMAIN lst
    THEN "ListingNotFound"
    ELSE IF ~lst[data.listing_id].is_available
    THEN "ListingUnavailable"
    ELSE IF /\ Has(data, "number_of_guests")
            /\ data.number_of_guests # 0
            /\ data.number_of_guests >= lst[data.listing_id].max_guests
    THEN "GuestCapacityExceeded"
    ELSE IF /\ Has(data, "check_in_date") /\ Has(data, "check_out_date")
            /\ OverlappingBookings(bks, data.listing_id, data.check_in_date,
                                   data.check_out_date, instance) # {}
    THEN "DateRangeConflict"
    ELSE "ok"

\* Lines 115-145: the listing lookup and the checks made under it; all of
\* them are skipped when the data carries no listing_id.
ValidateListing(data, instance, lst, bks) ==
    IF ~Has(data, "listing_id")
    THEN "ok"
    ELSE IF data.listing_id \notin DOMAIN lst
    THEN "ListingNotFound"
    ELSE IF ~lst[data.listing_id].is_available
    THEN "ListingUnavailable"
    ELSE IF /\ Has(data, "number_of_guests")
            /\ data.number_of_guests # 0
            /\ data.number_of_guests > lst[data.listing_id].max_guests
    THEN "GuestCapacityExceeded"
    ELSE IF /\ Has(data, "check_in_date") /\ Has(data, "check_out_date")
            /\ OverlappingBookings(bks, data.listing_id, data.check_in_date,
                                   data.check_out_date, instance) # {}
    THEN "DateRangeConflict"
    ELSE "ok"

ValidateBooking(data, instance, lst, bks, now) ==
    IF ValidateDates(data, now) # "ok"
    THEN ValidateDates(data, now)
    ELSE ValidateListing(data, instance, lst, bks)

\* is_valid(): field validation, then validate().
BookingIsValid(data, instance, lst, bks, now) ==
    IF ~BookingFieldsValid(data)
    THEN "FieldError"
    ELSE ValidateBooking(data, instance, lst, bks, now)

\* The payload with the guest key alone left out: status taken as writable.
WritableBookingData_StatusWritable(payload) ==
    [k \in DOMAIN payload \ {"guest"} |-> payload[k]]

\* Meta.read_only_fields: is_valid() leaves the read-only keys of the payload
\* out of validated_data (booking_id, created_at, updated_at and total_price
\* are not modelled as payload keys).
WritableBookingData(payload) ==
    [k \in DOMAIN payload \ {"guest", "status"} |-> payload[k]]

\* serializers.py BookingSerializer.create: the row inserted.  guest is the
\* request's user, total_price is computed, status is the validated value
\* if there is one and the model default otherwise.
NewBookingRow(data, actor, lst) ==
    [listing |-> data.listing_id,
     guest |-> actor,
     check_in_date |-> data.check_in_date,
     check_out_date |-> data.check_out_date,
     number_of_guests |-> data.number_of_guests,
     total_price |->
        lst[data.listing_id].price_per_night
            * Nights(data.check_in_date, data.check_out_date),
     status |-> IF Has(data, "status") THEN data.status ELSE "pending"]

\* ModelSerializer.update, which BookingSerializer does not override: every
\* validated key is set on the instance, nothing else is recomputed.
UpdatedBookingRow(row, data) ==
    [row EXCEPT
        !.listing = IF Has(data, "listing_id") THEN data.listing_id ELSE @,
        !.check_in_date = IF Has(data, "check_in_date") THEN data.check_in_date ELSE @,
        !.check_out_date = IF Has(data, "check_out_date") THEN data.check_out_date ELSE @,
        !.number_of_guests =
            IF Has(data, "number_of_guests") THEN data.number_of_guests ELSE @]

\* Booking.objects.create(...): the table after the insert.
InsertBooking(bks, row) == bks @@ ((Cardinality(DOMAIN bks) + 1) :> row)

(* ---------------------------- Review model ----------------------------- *)
\* The Review table without its unique constraint.
ReviewUniqueTogether_Absent(revs, row) == TRUE

\* models.py Review.Meta.unique_together = ['listing', 'reviewer']: the
\* insert is refused when a row with the same pair is stored.
ReviewUniqueTogether(revs, row) ==
    \A r \in DOMAIN revs :
        ~(revs[r].listing = row.listing /\ revs[r].reviewer = row.reviewer)

(* ------------------------- ReviewSerializer ---------------------------- *)
\* Field validation of the rating without MinValueValidator(1).
ReviewFieldsValid_NoMin(data) ==
    Has(data, "rating") => data.rating <= 5

\* Field validation that runs before validate(): rating carries
\* MinValueValidator(1) and MaxValueValidator(5).
ReviewFieldsValid(data) ==
    Has(data, "rating") => (data.rating >= 1 /\ data.rating <= 5)

\* serializers.py ReviewSerializer.validate: the error raised, or "ok".
\*   "Rating must be between 1 and 5."                   InvalidRating
\*   "Invalid listing ID."                               ListingNotFound
\*   "Invalid booking ID."                               BookingNotFound
\*   "You can only review bookings you made."            NotBookingOwner
\*   "You can only review completed bookings."           BookingNotCompleted
\* The booking checks without the comparison of the guest with the user.
ValidateReviewBooking_NoOwner(data, actor, bks) ==
    IF ~Has(data, "booking_id")
    THEN "ok"
    ELSE IF data.booking_id \notin DOMAIN bks
    THEN "BookingNotFound"
    ELSE IF bks[data.booking_id].status # "completed"
    THEN "BookingNotCompleted"
    ELSE "ok"

\* The booking checks with the status compared before the guest.
ValidateReviewBooking_StatusFirst(data, actor, bks) ==
    IF ~Has(data, "booking_id")
    THEN "ok"
    ELSE IF data.booking_id \notin DOMAIN bks
    THEN "BookingNotFound"
    ELSE IF bks[data.booking_id].status # "completed"
    THEN "BookingNotCompleted"
    ELSE IF bks[data.booking_id].guest # actor
    THEN "NotBookingOwner"
    ELSE "ok"

\* Lines 200-214: the booking lookup and the checks made under it.
ValidateReviewBooking(data, actor, bks) ==
    IF ~Has(data, "booking_id")
    THEN "ok"
    ELSE IF data.booking_id \notin DOMAIN bks
    THEN "BookingNotFound"
    ELSE IF bks[data.booking_id].guest # actor
    THEN "NotBookingOwner"
    ELSE IF bks[data.booking_id].status # "completed"
    THEN "BookingNotCompleted"
    ELSE "ok"

ValidateReview(data, actor, lst, bks) ==
    IF /\ Has(data, "rating")
       /\ data.rating # 0
       /\ (data.rating < 1 \/ data.rating > 5)
    THEN "InvalidRating"
    ELSE IF Has(data, "listing_id") /\ data.listing_id \notin DOMAIN lst
    THEN "ListingNotFound"
    ELSE ValidateReviewBooking(data, actor, bks)

\* is_valid(): field validation, then validate().
ReviewIsValid(data, actor, lst, bks) ==
    IF ~ReviewFieldsValid(data)
    THEN "FieldError"
    ELSE ValidateReview(data, actor, lst, bks)

\* serializers.py ReviewSerializer.create: the row inserted; reviewer is the
\* request's user, booking is null (0) when no booking_id was sent.
NewReviewRow(data, actor) ==
    [listing |-> data.listing_id,
     reviewer |-> actor,
     booking |-> IF Has(data, "booking_id") THEN data.booking_id ELSE 0,
     rating |-> data.rating]

\* Review.objects.create(...): the table after the insert.
InsertReview(revs, row) == revs @@ ((Cardinality(DOMAIN revs) + 1) :> row)

(* ----------------------------- requests -------------------------------- *)
CreateBookingData ==
    { [listing_id |-> l, check_in_date |-> ci, check_out_date |-> co,
       number_of_guests |-> n] :
        l \in RequestListingIds, ci \in Days, co \in Days, n \in GuestCounts }

\* update_booking_dates carries the two dates; a caller may also send the
\* listing id (a full update).
UpdateBookingData ==
    { [check_in_date |-> ci, check_out_date |-> co] : ci \in Days, co \in Days }
    \cup
    { [check_in_date |-> ci, check_out_date |-> co, listing_id |-> l] :
        ci \in Days, co \in Days, l \in RequestListingIds }

\* The bookings made while reviews are exercised: one stay on listing L1.
StayBookingData ==
    { [listing_id |-> "L1", check_in_date |-> 0, check_out_date |-> 1,
       number_of_guests |-> 1] }

\* Payloads of a stay that also carry the read-only keys status and guest.
PayloadBookingData ==
    StayBookingData
    \cup { d @@ [status |-> s] : d \in StayBookingData, s \in STATUS_CHOICES }
    \cup { d @@ [guest |-> g] : d \in StayBookingData, g \in Users }
    \cup { d @@ [status |-> s, guest |-> g] :
                d \in StayBookingData, s \in STATUS_CHOICES, g \in Users }

\* ratings a request may carry: the two ends of the range, their neighbours
\* and a negative value
RequestRatings == {-1, 0, 1, 5, 6}

\* booking ids a request may carry; MaxBookings + 1 names no stored booking
RequestBookingIds == 1..(MaxBookings + 1)

CreateReviewData ==
    { [listing_id |-> l, rating |-> r] :
        l \in {"L1", "L2", "L9"}, r \in RequestRatings }
    \cup
    { [listing_id |-> l, rating |-> r, booking_id |-> b] :
        l \in {"L1", "L2", "L9"}, r \in RequestRatings, b \in RequestBookingIds }

\* The requests made while all three operations are exercised together:
\* bookings of one guest on listing L1 or on the absent listing L9.
FrameBookingData ==
    { d \in CreateBookingData :
        d.listing_id \in {"L1", "L9"} /\ d.number_of_guests = 1 }

FrameUpdateData ==
    { d \in UpdateBookingData :
        Has(d, "listing_id") => d.listing_id \in {"L1", "L9"} }

FrameReviewData ==
    { d \in CreateReviewData :
        d.listing_id \in {"L1", "L9"} /\ d.rating \in {0, 5} }

(* ------------------------------ actions -------------------------------- *)
Init ==
    /\ listings = InitialListings
    /\ bookings = <<>>
    /\ reviews = <<>>
    /\ today = 0
    /\ inflight = [p \in Procs |-> Idle]
    /\ last = NoRequest

\* create_booking processed in one piece: is_valid(), then save().
CreateBooking(actor, payload) ==
    LET data == WritableBookingData(payload)
        result == BookingIsValid(data, 0, listings, bookings, today)
        row == NewBookingRow(data, actor, listings)
    IN  /\ last = NoRequest
        /\ Cardinality(DOMAIN bookings) < MaxBookings
        /\ IF result = "ok"
           THEN IF BookingConstraintsHold(row)
                THEN /\ bookings' = InsertBooking(bookings, row)
                     /\ last' = [op |-> "create_booking", actor |-> actor,
                                 data |-> payload, instance |-> 0,
                                 result |-> "ok"]
                ELSE /\ UNCHANGED bookings
                     /\ last' = [op |-> "create_booking", actor |-> actor,
                                 data |-> payload, instance |-> 0,
                                 result |-> "IntegrityError"]
           ELSE /\ UNCHANGED bookings
                /\ last' = [op |-> "create_booking", actor |-> actor,
                            data |-> payload, instance |-> 0,
                            result |-> result]
        /\ UNCHANGED <<listings, reviews, today, inflight>>

\* update_booking_dates processed in one piece: the serializer is bound to the
\* stored booking (self.instance), is_valid(), then save().
UpdateBookingDates(b, data) ==
    LET result == BookingIsValid(data, b, listings, bookings, today)
        row == UpdatedBookingRow(bookings[b], data)
    IN  /\ last = NoRequest
        /\ b \in DOMAIN bookings
        /\ IF result = "ok"
           THEN IF BookingConstraintsHold(row)
                THEN /\ bookings' = [bookings EXCEPT ![b] = row]
                     /\ last' = [op |-> "update_booking_dates",
                                 data |-> data, instance |-> b, result |-> "ok"]
                ELSE /\ UNCHANGED bookings
                     /\ last' = [op |-> "update_booking_dates",
                                 data |-> data, instance |-> b,
                                 result |-> "IntegrityError"]
           ELSE /\ UNCHANGED bookings
                /\ last' = [op |-> "update_booking_dates",
                            data |-> data, instance |-> b, result |-> result]
        /\ UNCHANGED <<listings, reviews, today, inflight>>

\* Status changes are made by the surrounding collaborator:
\* pending -> confirmed -> completed, pending | confirmed -> cancelled.
LegalTransition(from, to) ==
    \/ from = "pending" /\ to \in {"confirmed", "cancelled"}
    \/ from = "confirmed" /\ to \in {"completed", "cancelled"}

SetBookingStatus(b, s) ==
    /\ last = NoRequest
    /\ b \in DOMAIN bookings
    /\ LegalTransition(bookings[b].status, s)
    /\ bookings' = [bookings EXCEPT ![b].status = s]
    /\ UNCHANGED <<listings, reviews, today, inflight, last>>

\* date.today() moves on.
Tick ==
    /\ last = NoRequest
    /\ today < MaxToday
    /\ today' = today + 1
    /\ UNCHANGED <<listings, bookings, reviews, inflight, last>>

\* The response of the request just processed is returned to the caller;
\* requests are processed one at a time.
Return ==
    /\ last # NoRequest
    /\ last' = NoRequest
    /\ UNCHANGED <<listings, bookings, reviews, today, inflight>>

\* create_review with the row written whatever is_valid() answered.
CreateReview_SavesInvalid(actor, data) ==
    LET result == ReviewIsValid(data, actor, listings, bookings)
        row == NewReviewRow(data, actor)
    IN  /\ last = NoRequest
        /\ Cardinality(DOMAIN reviews) < MaxReviews
        /\ reviews' = IF ReviewUniqueTogether(reviews, row)
                      THEN InsertReview(reviews, row)
                      ELSE reviews
        /\ last' = [op |-> "create_review", actor |-> actor, data |-> data,
                    result |-> IF result = "ok"
                                  /\ ~ReviewUniqueTogether(reviews, row)
                               THEN "IntegrityError"
                               ELSE result]
        /\ UNCHANGED <<listings, bookings, today, inflight>>

\* create_review processed in one piece: is_valid(), then save().  The
\* insert is refused by the table's unique constraint (an IntegrityError).
CreateReview(actor, data) ==
    LET result == ReviewIsValid(data, actor, listings, bookings)
        row == NewReviewRow(data, actor)
    IN  /\ last = NoRequest
        /\ Cardinality(DOMAIN reviews) < MaxReviews
        /\ IF result = "ok"
           THEN IF ReviewUniqueTogether(reviews, row)
                THEN /\ reviews' = InsertReview(reviews, row)
                     /\ last' = [op |-> "create_review", actor |-> actor,
                                 data |-> data, result |-> "ok"]
                ELSE /\ UNCHANGED reviews
                     /\ last' = [op |-> "create_review", actor |-> actor,
                                 data |-> data, result |-> "IntegrityError"]
           ELSE /\ UNCHANGED reviews
                /\ last' = [op |-> "create_review", actor |-> actor,
                            data |-> data, result |-> result]
        /\ UNCHANGED <<listings, bookings, today, inflight>>

(* ------------------ requests whose steps interleave -------------------- *)
InFlightBookings == { p \in Procs : inflight[p].op = "create_booking" }

InFlightReviews == { p \in Procs : inflight[p].op = "create_review" }

\* is_valid() of a create_booking request: the validation read.
BeginCreateBooking(p, actor, payload) ==
    /\ inflight[p] = Idle
    /\ Cardinality(DOMAIN bookings) + Cardinality(InFlightBookings) < MaxBookings
    /\ BookingIsValid(WritableBookingData(payload), 0, listings, bookings,
                      today) = "ok"
    /\ inflight' = [inflight EXCEPT
                        ![p] = [op |-> "create_booking", actor |-> actor,
                                data |-> WritableBookingData(payload)]]
    /\ UNCHANGED <<listings, bookings, reviews, today, last>>

\* save() of a validated create_booking request: the write.
CommitCreateBooking(p) ==
    LET row == NewBookingRow(inflight[p].data, inflight[p].actor, listings)
    IN  /\ inflight[p].op = "create_booking"
        /\ bookings' = IF BookingConstraintsHold(row)
                       THEN InsertBooking(bookings, row)
                       ELSE bookings
        /\ inflight' = [inflight EXCEPT ![p] = Idle]
        /\ UNCHANGED <<listings, reviews, today, last>>

\* is_valid() of a create_review request: the validation read.
BeginCreateReview(p, actor, data) ==
    /\ inflight[p] = Idle
    /\ Cardinality(DOMAIN reviews) + Cardinality(InFlightReviews) < MaxReviews
    /\ ReviewIsValid(data, actor, listings, bookings) = "ok"
    /\ inflight' = [inflight EXCEPT
                        ![p] = [op |-> "create_review", actor |-> actor,
                                data |-> data]]
    /\ UNCHANGED <<listings, bookings, reviews, today, last>>

\* save() of a validated create_review request: the write, refused by the
\* unique constraint when the pair is stored by then.
CommitCreateReview(p) ==
    LET row == NewReviewRow(inflight[p].data, inflight[p].actor)
    IN  /\ inflight[p].op = "create_review"
        /\ reviews' = IF ReviewUniqueTogether(reviews, row)
                      THEN InsertReview(reviews, row)
                      ELSE reviews
        /\ inflight' = [inflight EXCEPT ![p] = Idle]
        /\ UNCHANGED <<listings, bookings, today, last>>

Next ==
    \/ \E actor \in BookingGuests, data \in CreateBookingData :
            CreateBooking(actor, data)
    \/ \E b \in 1..MaxBookings, data \in UpdateBookingData :
            UpdateBookingDates(b, data)
    \/ \E b \in 1..MaxBookings, s \in STATUS_CHOICES : SetBookingStatus(b, s)
    \/ Tick
    \/ Return

Spec == Init /\ [][Next]_vars

\* Reviews, requests processed one at a time.
NextReview ==
    \/ \E actor \in Users, data \in StayBookingData : CreateBooking(actor, data)
    \/ \E b \in 1..MaxBookings, s \in STATUS_CHOICES : SetBookingStatus(b, s)
    \/ \E actor \in Users, data \in CreateReviewData : CreateReview(actor, data)
    \/ Return

ReviewSpec == Init /\ [][NextReview]_vars

\* create_booking requests whose validation and write interleave.
NextConcBooking ==
    \/ \E p \in Procs, actor \in Users, data \in CreateBookingData :
            BeginCreateBooking(p, actor, data)
    \/ \E p \in Procs : CommitCreateBooking(p)
    \/ Tick

ConcBookingSpec == Init /\ [][NextConcBooking]_vars

\* create_review requests whose validation and write interleave.
NextConcReview ==
    \/ \E actor \in Users, data \in StayBookingData : CreateBooking(actor, data)
    \/ Return
    \/ \E b \in 1..MaxBookings, s \in STATUS_CHOICES : SetBookingStatus(b, s)
    \/ \E p \in Procs, actor \in Users, data \in CreateReviewData :
            BeginCreateReview(p, actor, data)
    \/ \E p \in Procs : CommitCreateReview(p)

ConcReviewSpec == Init /\ [][NextConcReview]_vars

\* Bookings, updates and reviews, requests processed one at a time.
NextFrame ==
    \/ \E actor \in BookingGuests, data \in FrameBookingData :
            CreateBooking(actor, data)
    \/ \E b \in 1..MaxBookings, data \in FrameUpdateData :
            UpdateBookingDates(b, data)
    \/ \E b \in 1..MaxBookings, s \in STATUS_CHOICES : SetBookingStatus(b, s)
    \/ \E actor \in Users, data \in FrameReviewData : CreateReview(actor, data)
    \/ Tick
    \/ Return

FrameSpec == Init /\ [][NextFrame]_vars

\* create_booking with payloads that carry read-only keys.
NextPayload ==
    \/ \E actor \in Users, payload \in PayloadBookingData :
            CreateBooking(actor, payload)
    \/ \E b \in 1..MaxBookings, s \in STATUS_CHOICES : SetBookingStatus(b, s)
    \/ Return

PayloadSpec == Init /\ [][NextPayload]_vars

(* ------------------------------ properties ---------------------------- *)
ActiveStatuses == {"pending", "confirmed"}

IsActive(b) == bookings[b].status \in ActiveStatuses

\* The step processes a booking request: last' is the request and its result,
\* the unprimed store is the store the request was validated against.
BookingProcessed ==
    /\ last = NoRequest
    /\ last'.op \in {"create_booking", "update_booking_dates"}

\* The rule of section 4.1 on the store before the request, the booking being
\* updated left out.
ConflictExists(d, instance) ==
    \E b \in DOMAIN bookings :
        /\ b # instance
        /\ bookings[b].listing = d.listing_id
        /\ IsActive(b)
        /\ bookings[b].check_in_date < d.check_out_date
        /\ bookings[b].check_out_date > d.check_in_date

\* The same as a shared night: a day both stays cover.
SharesNight(d, instance) ==
    \E b \in DOMAIN bookings, day \in Days :
        /\ b # instance
        /\ bookings[b].listing = d.listing_id
        /\ IsActive(b)
        /\ bookings[b].check_in_date <= day /\ day < bookings[b].check_out_date
        /\ d.check_in_date <= day /\ day < d.check_out_date

\* The first rule of section 4.2 the request violates, in the order of that
\* section, for a request that names a stored listing; "ok" when none.
FirstViolatedRule(d, instance) ==
    IF d.check_out_date <= d.check_in_date THEN "InvalidDateRange"
    ELSE IF d.check_in_date < today THEN "PastCheckInDate"
    ELSE IF ~listings[d.listing_id].is_available THEN "ListingUnavailable"
    ELSE IF /\ Has(d, "number_of_guests")
            /\ ~(0 < d.number_of_guests
                 /\ d.number_of_guests <= listings[d.listing_id].max_guests)
         THEN "GuestCapacityExceeded"
    ELSE IF ConflictExists(d, instance) THEN "DateRangeConflict"
    ELSE "ok"

\* C1: after accepted create_booking and update_booking_dates requests
\* processed one at a time, no two distinct stored bookings of one listing
\* that are both pending or confirmed overlap.
C1_NoOverlappingActiveBookings ==
    \A b1 \in DOMAIN bookings, b2 \in DOMAIN bookings :
        (/\ b1 # b2
         /\ bookings[b1].listing = bookings[b2].listing
         /\ IsActive(b1) /\ IsActive(b2))
        => ~(/\ bookings[b1].check_in_date < bookings[b2].check_out_date
             /\ bookings[b1].check_out_date > bookings[b2].check_in_date)

\* C2: when create_booking requests for overlapping ranges of one listing run
\* concurrently, at most one of them is persisted: no night of a listing is
\* covered by two stored active bookings.
C2_ConcurrentCreatesKeepNightsExclusive ==
    \A l \in DOMAIN listings, day \in Days :
        Cardinality({ b \in DOMAIN bookings :
                        /\ bookings[b].listing = l
                        /\ IsActive(b)
                        /\ bookings[b].check_in_date <= day
                        /\ day < bookings[b].check_out_date }) <= 1

\* C3: every stored booking has total_price = listing.price_per_night times
\* the number of nights of its stay, also after its dates were updated.
C3_TotalPriceMatchesStay ==
    \A b \in DOMAIN bookings :
        bookings[b].total_price =
            listings[bookings[b].listing].price_per_night
                * (bookings[b].check_out_date - bookings[b].check_in_date)

\* C4: a review that create_review writes with a booking reference has, at
\* the moment of the write, booking.guest = reviewer and booking.status =
\* completed.
C4_BookingBackedReviewIsEligible ==
    [][\A r \in DOMAIN reviews' :
            (r \notin DOMAIN reviews /\ reviews'[r].booking # 0)
            => /\ reviews'[r].booking \in DOMAIN bookings
               /\ bookings[reviews'[r].booking].guest = reviews'[r].reviewer
               /\ bookings[reviews'[r].booking].status = "completed"]_vars

C4_Witness ==
    /\ last.op = "create_review"
    /\ last.result = "ok"
    /\ Has(last.data, "booking_id")
    /\ \E r \in DOMAIN reviews : reviews[r].booking = last.data.booking_id

\* C5: under any interleaving of create_review requests the store holds at
\* most one review per (listing, reviewer) pair.
C5_OneReviewPerListingAndReviewer ==
    \A r1 \in DOMAIN reviews, r2 \in DOMAIN reviews :
        (/\ reviews[r1].listing = reviews[r2].listing
         /\ reviews[r1].reviewer = reviews[r2].reviewer)
        => r1 = r2

\* Two requests of one reviewer for one listing were both validated before
\* either was written, and one of them is written by now.
C5_Witness ==
    \E p \in Procs, r \in DOMAIN reviews :
        /\ inflight[p].op = "create_review"
        /\ inflight[p].actor = reviews[r].reviewer
        /\ inflight[p].data.listing_id = reviews[r].listing

\* C6: a create_review by a reviewer who already has a stored review of the
\* listing (valid rating, stored listing) is rejected by validation with
\* DuplicateReview, the store unchanged.
C6_SecondReviewRejectedAsDuplicate ==
    (/\ last.op = "create_review"
     /\ last.data.rating \in 1..5
     /\ last.data.listing_id \in DOMAIN listings
     /\ \E r \in DOMAIN reviews :
            /\ reviews[r].listing = last.data.listing_id
            /\ reviews[r].reviewer = last.actor
            /\ (last.result = "ok" => r # Cardinality(DOMAIN reviews)))
    => last.result = "DuplicateReview"

\* C7: for a request that reaches the availability check, a conflict is
\* reported if and only if some stored pending or confirmed booking of the
\* listing has check_in < proposed check_out and check_out > proposed
\* check_in, that is, shares a night with the proposed stay; cancelled,
\* completed and adjacent bookings cause none.
C7_ConflictIffActiveOverlap ==
    [][(/\ BookingProcessed
        /\ Has(last'.data, "listing_id")
        /\ last'.data.listing_id \in DOMAIN listings
        /\ FirstViolatedRule(last'.data, last'.instance)
                \in {"ok", "DateRangeConflict"}
        /\ (Has(last'.data, "number_of_guests")
                => last'.data.number_of_guests >= 1))
       => /\ last'.result \in {"ok", "DateRangeConflict"}
          /\ (last'.result = "DateRangeConflict"
                <=> ConflictExists(last'.data, last'.instance))
          /\ (last'.result = "DateRangeConflict"
                <=> SharesNight(last'.data, last'.instance))]_vars

\* A stay was accepted next to an active stay of the same listing that ends
\* on the day it begins.
C7_Witness ==
    /\ last.op = "create_booking"
    /\ last.result = "ok"
    /\ \E b1 \in DOMAIN bookings, b2 \in DOMAIN bookings :
            /\ b2 = Cardinality(DOMAIN bookings)
            /\ b1 # b2
            /\ bookings[b1].listing = bookings[b2].listing
            /\ IsActive(b1)
            /\ bookings[b1].check_out_date = bookings[b2].check_in_date

\* C8 as stated: a request that names a stored listing and violates rules of
\* section 4.2 is rejected with the kind of the first violated rule, in the
\* order InvalidDateRange, PastCheckInDate, ListingUnavailable,
\* GuestCapacityExceeded, DateRangeConflict, whatever its other inputs are.
C8_Original_FirstViolatedRuleWins ==
    [][(/\ BookingProcessed
        /\ Has(last'.data, "listing_id")
        /\ last'.data.listing_id \in DOMAIN listings
        /\ FirstViolatedRule(last'.data, last'.instance) # "ok")
       => last'.result = FirstViolatedRule(last'.data, last'.instance)]_vars

\* C8 as amended: the same for the requests whose number_of_guests, when
\* present, is at least 1; a smaller number_of_guests is refused by field
\* validation before any of the rules is applied.
C8_FirstViolatedRuleWins ==
    [][(/\ BookingProcessed
        /\ Has(last'.data, "listing_id")
        /\ last'.data.listing_id \in DOMAIN listings
        /\ FirstViolatedRule(last'.data, last'.instance) # "ok")
       => IF /\ Has(last'.data, "number_of_guests")
             /\ last'.data.number_of_guests < 1
          THEN last'.result = "FieldError"
          ELSE last'.result
                    = FirstViolatedRule(last'.data, last'.instance)]_vars

\* A request that violates the first four rules at once was rejected with
\* InvalidDateRange.
C8_Witness ==
    /\ last.op = "create_booking"
    /\ last.result = "InvalidDateRange"
    /\ last.data.check_in_date = last.data.check_out_date
    /\ last.data.check_in_date < today
    /\ last.data.listing_id \in DOMAIN listings
    /\ ~listings[last.data.listing_id].is_available
    /\ last.data.number_of_guests > listings[last.data.listing_id].max_guests

\* The create_booking request of the step passes the date rules and names a
\* stored, available listing.
PassesDateAndAvailability ==
    /\ last = NoRequest
    /\ last'.op = "create_booking"
    /\ last'.data.check_out_date > last'.data.check_in_date
    /\ last'.data.check_in_date >= today
    /\ last'.data.listing_id \in DOMAIN listings
    /\ listings[last'.data.listing_id].is_available

\* C9 as stated: such a request is rejected with GuestCapacityExceeded exactly
\* when NOT (0 < num_guests <= listing.max_guests).
C9_Original_CapacityIffOutOfRange ==
    [][PassesDateAndAvailability
       => (last'.result = "GuestCapacityExceeded"
            <=> ~(/\ 0 < last'.data.number_of_guests
                  /\ last'.data.number_of_guests
                        <= listings[last'.data.listing_id].max_guests))]_vars

\* C9 as amended: such a request is rejected with GuestCapacityExceeded
\* exactly when num_guests > listing.max_guests; num_guests < 1 is rejected
\* too, by field validation and with a field error.
C9_CapacityIffAboveMaximum ==
    [][PassesDateAndAvailability
       => /\ (last'.result = "GuestCapacityExceeded"
                <=> last'.data.number_of_guests
                        > listings[last'.data.listing_id].max_guests)
          /\ (last'.data.number_of_guests < 1
                <=> last'.result = "FieldError")]_vars

\* A request for exactly max_guests guests was accepted.
C9_Witness ==
    /\ last.op = "create_booking"
    /\ last.result = "ok"
    /\ last.data.number_of_guests = listings[last.data.listing_id].max_guests

\* C10 as stated: every create_booking or update_booking_dates request whose
\* check_in is before the current date is rejected with PastCheckInDate.
C10_Original_PastCheckInRejectedAsSuch ==
    [][(BookingProcessed /\ last'.data.check_in_date < today)
       => last'.result = "PastCheckInDate"]_vars

\* C10 as amended: every such request is rejected, with PastCheckInDate unless
\* field validation or the InvalidDateRange rule rejects it first; an
\* accepted create or update writes a check_in that is not before the date of
\* its validation.
C10_PastCheckInNeverAccepted ==
    [][BookingProcessed
       => /\ (last'.data.check_in_date < today
                => last'.result =
                      IF /\ Has(last'.data, "number_of_guests")
                         /\ last'.data.number_of_guests < 1
                      THEN "FieldError"
                      ELSE IF last'.data.check_out_date
                                    <= last'.data.check_in_date
                      THEN "InvalidDateRange"
                      ELSE "PastCheckInDate")
          /\ (last'.result = "ok"
                => \A b \in DOMAIN bookings' :
                        (b \notin DOMAIN bookings \/ bookings'[b] # bookings[b])
                        => bookings'[b].check_in_date >= today)]_vars

\* An update of a stored booking to a past check_in was rejected.
C10_Witness ==
    /\ last.op = "update_booking_dates"
    /\ last.result = "PastCheckInDate"
    /\ last.data.check_in_date < today
    /\ last.instance \in DOMAIN bookings

\* The listing an update_booking_dates request is about: the one its data
\* names, else the stored booking's.
UpdateListing(d, instance) ==
    IF Has(d, "listing_id") THEN d.listing_id ELSE bookings[instance].listing

\* C11: an update_booking_dates request with valid dates is rejected with
\* DateRangeConflict whenever the new range overlaps a different active
\* booking of the same listing, and is never rejected for overlapping only
\* the booking's own stored range.
C11_UpdateRunsConflictRuleExcludingSelf ==
    [][(/\ last = NoRequest
        /\ last'.op = "update_booking_dates"
        /\ last'.data.check_out_date > last'.data.check_in_date
        /\ last'.data.check_in_date >= today
        /\ UpdateListing(last'.data, last'.instance) \in DOMAIN listings
        /\ listings[UpdateListing(last'.data, last'.instance)].is_available)
       => (last'.result = "DateRangeConflict"
            <=> \E b \in DOMAIN bookings :
                    /\ b # last'.instance
                    /\ bookings[b].listing
                            = UpdateListing(last'.data, last'.instance)
                    /\ IsActive(b)
                    /\ bookings[b].check_in_date < last'.data.check_out_date
                    /\ bookings[b].check_out_date
                            > last'.data.check_in_date)]_vars

\* The outcome the eligibility rule gives a review of booking b by actor.
EligibilityOutcome(b, actor) ==
    IF bookings[b].guest # actor
    THEN "NotBookingOwner"
    ELSE IF bookings[b].status \in {"pending", "confirmed", "cancelled"}
    THEN "BookingNotCompleted"
    ELSE "ok"

\* C12: a create_review that names a stored booking and a stored listing,
\* with a rating in 1..5 and no prior review of the listing by the reviewer,
\* is rejected with NotBookingOwner when the booking's guest is not the
\* reviewer (completed or not), with BookingNotCompleted when the guest is
\* the reviewer and the status is pending, confirmed or cancelled, and is
\* accepted when the guest is the reviewer and the status is completed.
C12_BookingEligibilityOutcome ==
    [][(/\ last = NoRequest
        /\ last'.op = "create_review"
        /\ Has(last'.data, "booking_id")
        /\ last'.data.booking_id \in DOMAIN bookings
        /\ last'.data.listing_id \in DOMAIN listings
        /\ last'.data.rating \in 1..5
        /\ \A r \in DOMAIN reviews :
                ~(/\ reviews[r].listing = last'.data.listing_id
                  /\ reviews[r].reviewer = last'.actor))
       => last'.result
            = EligibilityOutcome(last'.data.booking_id, last'.actor)]_vars

\* A review of another guest's booking that is not completed either was
\* rejected as not the reviewer's own.
C12_Witness ==
    /\ last.op = "create_review"
    /\ last.result = "NotBookingOwner"
    /\ Has(last.data, "booking_id")
    /\ last.data.booking_id \in DOMAIN bookings
    /\ bookings[last.data.booking_id].guest # last.actor
    /\ bookings[last.data.booking_id].status # "completed"

\* C13: whenever create_booking, update_booking_dates or create_review is
\* answered with an error, the stored listings, bookings and reviews are
\* exactly what they were before the request.
C13_RejectionLeavesStoreUnchanged ==
    [][(/\ last = NoRequest
        /\ last'.op \in {"create_booking", "update_booking_dates",
                         "create_review"}
        /\ last'.result # "ok")
       => /\ listings' = listings
          /\ bookings' = bookings
          /\ reviews' = reviews]_vars

\* A request naming an absent listing or booking was rejected while the
\* store held a booking and a review.
C13_Witness ==
    /\ last.op \in {"create_booking", "update_booking_dates", "create_review"}
    /\ last.result \in {"ListingNotFound", "BookingNotFound"}
    /\ bookings # <<>>
    /\ reviews # <<>>

\* The answers that reject a request for its rating: the rating field's
\* range validators, or validate()'s own comparison.
RatingRejections == {"FieldError", "InvalidRating"}

\* C14: create_review rejects for its rating every request whose rating is
\* outside 1..5 (0 and negative values included) and no request whose rating
\* is in 1..5, and every stored review has a rating in 1..5.
C14_RatingInRange ==
    /\ [][(last = NoRequest /\ last'.op = "create_review")
          => (last'.result \in RatingRejections
                <=> last'.data.rating \notin 1..5)]_vars
    /\ [](\A r \in DOMAIN reviews : reviews[r].rating \in 1..5)

\* A request with rating 0 or a negative rating was rejected while a review
\* is stored.
C14_Witness ==
    /\ last.op = "create_review"
    /\ last.data.rating \in {-1, 0}
    /\ last.result \in RatingRejections
    /\ reviews # <<>>

\* C16: every booking that create_booking writes has status pending and
\* guest equal to the requesting actor, whatever status or guest the payload
\* carries.
C16_CreatedBookingPendingAndOwnedByActor ==
    [][\A b \in DOMAIN bookings' :
            b \notin DOMAIN bookings
            => /\ last'.op = "create_booking"
               /\ bookings'[b].status = "pending"
               /\ bookings'[b].guest = last'.actor]_vars

\* A payload carrying a status other than pending and another user as guest
\* was accepted, and the row written is the newest one.
C16_Witness ==
    /\ last.op = "create_booking"
    /\ last.result = "ok"
    /\ Has(last.data, "status")
    /\ last.data.status # "pending"
    /\ Has(last.data, "guest")
    /\ last.data.guest # last.actor
    /\ bookings # <<>>
    /\ bookings[Cardinality(DOMAIN bookings)].guest = last.actor
    /\ bookings[Cardinality(DOMAIN bookings)].status = "pending"

\* C17: every stored review that refers to a booking is a review of that
\* booking's listing.
C17_ReviewListingIsBookingListing ==
    \A r \in DOMAIN reviews :
        reviews[r].booking # 0
        => reviews[r].listing = bookings[reviews[r].booking].listing

====
